---- MODULE Spec2Model ----
(***************************************************************************)
(* TheWirelessMonitor: the ingestion -> scoring -> event-correlation ->    *)
(* digest pipeline of src/app/main.py (class WirelessMonitor), with the    *)
(* SQLite store it writes to and the threads that run it (the start-up     *)
(* fetch thread, the scheduler thread, the request threads of the web      *)
(* layer).                                                                 *)
(*                                                                         *)
(* Time is counted in ticks, DayTicks ticks to a calendar day, so that a   *)
(* timestamp and its calendar date are different things, as they are in    *)
(* the SQL of the source (published_date is a timestamp, DATE('now', ...)  *)
(* is a date).  Scores are integers in thousandths (0.05 is 50).           *)
(* Text is modelled by the set of vocabulary terms that occur in it as     *)
(* substrings (all the code ever asks of a text) and its word count.       *)
(***************************************************************************)
EXTENDS Integers, Sequences, FiniteSets, TLC

(***************************************************************************)
(* Bounds of the model.                                                    *)
(***************************************************************************)
\* entries taken from one feed response (the code takes at most 20)
MaxEntries == 3
\* the word counts of the texts handed to the scorer: 0..MaxWords, and
\* MaxWords long texts of LongText words and multiples
MaxWords == 2
LongText == 100
\* times the clock is moved forward in one behaviour
MaxAdvances == 2
\* days from the start of the process to the last week of the year
YearEndDays == 359
\* fetch passes started in one behaviour
MaxCalls == 2
\* requests of the web layer that change the store, other than fetch_now
MaxEdits == 1
\* retention sweeps started in one behaviour
MaxSweeps == 1
\* digest builder invocations in one behaviour
MaxBuilds == 2
\* articles above the digest threshold in the store the digest builder
\* starts from
MaxStored == 7
\* row ids the digest routes of the web layer are asked about
MaxRowId == 2

(***************************************************************************)
(* Program constants.                                                      *)
(***************************************************************************)
DayTicks == 2
IngestThreshold == 50
DigestThreshold == 300
DigestLimit == 6
RetentionDays == 30
BaseCap == 800
BoostCap == 200
BoostStep == 100
ScoreMax == 1000
DensityFactor == 50

None == "none"
NoTime == -1

Min(a, b) == IF a < b THEN a ELSE b
Max(a, b) == IF a > b THEN a ELSE b

(***************************************************************************)
(* Calendar.  Tick 0 is 2025-01-01 00:00; the years of the model (2025 to  *)
(* 2027) have 365 days.  SQLite keeps and compares dates as text           *)
(* 'YYYY-MM-DD' and timestamps as text 'YYYY-MM-DD HH:MM:SS'; a stored     *)
(* value is modelled as a stamp [y, m, d, part], part = 0 for a date-only  *)
(* text and 1..DayTicks for the time of day of a timestamp, and text order *)
(* is the order of StampKey.                                               *)
(***************************************************************************)
Epoch == [y |-> 2025, m |-> 1, d |-> 1]
BaseYear == Epoch.y
CumDays == <<0, 31, 59, 90, 120, 151, 181, 212, 243, 273, 304, 334, 365>>
YearDays == CumDays[13]

\* the day number of a tick: datetime.now().date(), date('now')
DayOf(t) == t \div DayTicks

\* year, month, day of a day number
DayYMD(n) ==
    LET doy == n % YearDays
        mm == CHOOSE k \in 1..12 : CumDays[k] <= doy /\ doy < CumDays[k + 1]
    IN [y |-> BaseYear + (n \div YearDays), m |-> mm, d |-> doy - CumDays[mm] + 1]

\* the order of 'YYYY-MM-DD' texts
Ord(y, m, d) == (y * 100 + m) * 100 + d

\* the text of the date of day number n, as its order key
DayOrd(n) == LET c == DayYMD(n) IN Ord(c.y, c.m, c.d)

\* the stamp of a datetime (a tick) and of the date of a day number
TickStamp(t) ==
    LET c == DayYMD(DayOf(t))
    IN [y |-> c.y, m |-> c.m, d |-> c.d, part |-> (t % DayTicks) + 1]

\* SQL DATE(x): NULL (Null) unless month and day are in SQLite's ranges
Null == -1
SqlDate(s) ==
    IF s.m >= 1 /\ s.m <= 12 /\ s.d >= 1 /\ s.d <= 31
    THEN Ord(s.y, s.m, s.d) ELSE Null

\* text order of stored values
StampKey(s) == Ord(s.y, s.m, s.d) * (DayTicks + 1) + s.part

\* the tick a timestamp stamp stands for (stamps of real datetimes only)
StampTick(s) ==
    ((s.y - BaseYear) * YearDays + CumDays[s.m] + s.d - 1) * DayTicks + s.part - 1

\* date.weekday(): 2025-01-01 is a Wednesday
Weekday(n) == (n + 2) % 7

\* self.wifi_keywords
wifi_keywords ==
    {"wifi", "wi-fi", "wireless", "802.11", "bluetooth", "5g", "6g", "lte",
     "cellular", "antenna", "spectrum", "frequency", "band", "router",
     "access point", "mesh", "networking", "connectivity", "broadband",
     "telecommunications", "radio", "signal", "interference", "latency",
     "bandwidth", "throughput", "iot", "internet of things", "smart home"}

important_keywords == {"wifi", "wi-fi", "wireless", "5g", "6g"}

\* the text handed to the scorer: [toks |-> terms occurring in it,
\* words |-> len(text.split())]
\* the density part without its cap
BaseUncapped(text) ==
    LET keyword_matches == Cardinality(text.toks \cap wifi_keywords)
        word_count == text.words
    IN (keyword_matches * DensityFactor * ScoreMax) \div Max(word_count, 1)

\* keyword_density * 50, capped
BaseScore(text) ==
    LET keyword_matches == Cardinality(text.toks \cap wifi_keywords)
        word_count == text.words
    IN Min((keyword_matches * DensityFactor * ScoreMax) \div Max(word_count, 1), BaseCap)

\* important_matches * 0.1, capped
ImportanceBoost(text) ==
    LET important_matches == Cardinality(text.toks \cap important_keywords)
    IN Min(important_matches * BoostStep, BoostCap)

\* calculate_relevance_score(text)
calculate_relevance_score(text) ==
    IF text.words = 0 THEN 0
    ELSE Min(BaseScore(text) + ImportanceBoost(text), ScoreMax)


(***************************************************************************)
(* The store.  A database value holds the tables of init_database; the     *)
(* seq* fields are the AUTOINCREMENT counters (an id is never reused).     *)
(*   feeds    : rows [id, name, active, last_fetched]       (rss_feeds)    *)
(*   articles : rows [id, feed_id, url, title, description, techwords,     *)
(*              mentions, published, score, image]          (articles)     *)
(*   events   : rows [id, name, text, year, keywords, start, end, active]  *)
(*                                                   (industry_events)     *)
(*   links    : rows [id, event_id, article_id, score]  (event_articles)   *)
(*   digest   : rows [id, article_id, week_start, added_by] (weekly_digest)*)
(*   settings : the keys present                        (settings)         *)
(***************************************************************************)
VARIABLES
    now,        \* the clock, in ticks
    db,         \* the committed database
    tx,         \* the working copy of the connection holding the write lock
    lockOwner,  \* who holds the write lock: a thread's connection, an
                \* abandoned connection (Abandoned), or None
    pc,         \* thread -> position
    loc,        \* thread -> locals of the handler it runs
    running,    \* self.running
    due,        \* the jobs run_pending() found due and has not finished
    hist        \* what the last steps did (observation only)

vars == <<now, db, tx, lockOwner, pc, loc, running, due, hist>>

\* a connection left unclosed with an open transaction keeps the write lock
\* until the interpreter collects it
Abandoned == "abandoned"

\* the threads: the start-up fetch thread, the scheduler thread, a request
\* thread of the web layer
Startup == "startup"
Sched == "sched"
Web == "web"
Threads == {Startup, Sched, Web}

\* get_db_connection(): what a connection of thread p reads
View(p) == IF lockOwner = p THEN tx ELSE db

\* a statement that writes can run on p's connection: no other connection
\* holds the write lock (otherwise sqlite3 raises "database is locked")
CanWrite(p) == lockOwner \in {None, p}

\* a statement of p wrote: p's connection holds the write lock
Wrote(p) == lockOwner' = p

\* conn.commit() or conn.close(): the transaction of p's connection ends
Ended(p) == lockOwner' = IF lockOwner = p THEN None ELSE lockOwner

\* SELECT id FROM articles WHERE url = ?
ExistingArticle(v, url) == \E a \in v.articles : a.url = url

\* the articles table without the UNIQUE constraint on url
ArticleUrlAny(v, url) == TRUE

\* articles.url TEXT UNIQUE NOT NULL: may a row with this url be inserted
ArticleUrlUnique(v, url) == ~ExistingArticle(v, url)

\* INSERT INTO articles ... ; cursor.lastrowid is v.seqArticle + 1
InsertArticle(v, row) ==
    [v EXCEPT !.articles = @ \cup {[row EXCEPT !.id = v.seqArticle + 1]},
              !.seqArticle = @ + 1]

\* a settings table whose key is not its primary key
SettingKeyAny(v, key) == TRUE

\* settings.key TEXT PRIMARY KEY: may a row with this key be inserted
SettingKeyUnique(v, key) == key \notin v.settings

\* the key f'digest_generated_{week_start}' and the key 'last_fetch'
DigestMarker(week) == [key |-> "digest_generated", week |-> week]
LastFetchKey == [key |-> "last_fetch", week |-> 0]

\* INSERT [OR REPLACE] INTO settings (key, ...)
PutSetting(v, key) == [v EXCEPT !.settings = @ \cup {key}]

\* UPDATE rss_feeds SET last_fetched = CURRENT_TIMESTAMP WHERE id = ?
TouchFeed(v, fid, t) ==
    [v EXCEPT !.feeds = {IF f.id = fid THEN [f EXCEPT !.last_fetched = t] ELSE f
                            : f \in @}]

\* the default feeds of init_database
DefaultFeeds ==
    {[id |-> 1, name |-> [kind |-> "rss", source |-> "feed1"],
      active |-> TRUE, last_fetched |-> NoTime],
     [id |-> 2, name |-> [kind |-> "rss", source |-> "feed2"],
      active |-> TRUE, last_fetched |-> NoTime]}

\* the database init_database leaves behind on a fresh installation
FreshDb ==
    [feeds |-> DefaultFeeds, articles |-> {}, events |-> {}, links |-> {},
     digest |-> {}, settings |-> {},
     seqFeed |-> Cardinality(DefaultFeeds), seqArticle |-> 0, seqEvent |-> 0,
     seqLink |-> 0, seqDigest |-> 0]

(***************************************************************************)
(* What the feeds serve.  An entry is what feedparser yields for one item: *)
(*   title, description, content : the vocabulary terms that occur in the  *)
(*       lower-cased text as substrings;                                   *)
(*   words     : the word count of the three together;                     *)
(*   techwords : the tech keywords of line 1993 that occur in title and    *)
(*       description as whole words;                                       *)
(*   mentions  : the matches of the event patterns of lines 1934-1944 over *)
(*       title and description, in the order the loops of lines 1963-1964  *)
(*       meet them, each [name |-> group(1) lower-cased, text |-> group(1) *)
(*       as written, year |-> the year in the match];                      *)
(*   published : the published_parsed timestamp (NoTime when absent).      *)
(***************************************************************************)
\* the day the process starts, 2026-01-03, and the tick: its second half
StartDay == 367
StartNow == StartDay * DayTicks + 1

\* "New Wi-Fi 7 router launched with 6GHz support"
EntryWifi ==
    [url |-> "u1", title |-> {"wi-fi", "6g", "router"}, description |-> {},
     content |-> {}, words |-> 8, techwords |-> {}, mentions |-> <<>>,
     published |-> NoTime]
\* one vocabulary term in a thousand words: density * 50 is exactly 0.05
EntryEdge ==
    [url |-> "u2", title |-> {"router"}, description |-> {},
     content |-> {}, words |-> 1000, techwords |-> {}, mentions |-> <<>>,
     published |-> StartNow - 1]
\* no vocabulary term at all
EntryOffTopic ==
    [url |-> "u3", title |-> {}, description |-> {},
     content |-> {}, words |-> 12, techwords |-> {}, mentions |-> <<>>,
     published |-> StartNow - 1]
\* "CES 2026: 5G and IoT innovations" / "New IoT devices"
EntryCes ==
    [url |-> "u4", title |-> {"5g", "iot", "ces", "innovation"},
     description |-> {"iot", "ces"}, content |-> {}, words |-> 9,
     techwords |-> {"5g", "iot"},
     mentions |-> <<[name |-> "ces", text |-> "CES", year |-> 2026]>>,
     published |-> StartNow - 1]
\* "Wi-Fi 7 routers at CES 2026"
EntryCesFloor ==
    [url |-> "u5", title |-> {"wi-fi", "router", "ces"}, description |-> {},
     content |-> {}, words |-> 6, techwords |-> {},
     mentions |-> <<[name |-> "ces", text |-> "CES", year |-> 2026]>>,
     published |-> StartNow - 1]
\* "Mobile World 2026: 5G at Mobile World 2026, a tech preview"
EntryWorld ==
    [url |-> "u6", title |-> {"5g", "tech"}, description |-> {},
     content |-> {}, words |-> 11, techwords |-> {"5g", "tech"},
     mentions |-> <<[name |-> "mobile world", text |-> "Mobile World", year |-> 2026],
                    [name |-> "mobile world", text |-> "Mobile World", year |-> 2026]>>,
     published |-> StartNow - 1]
\* "Mesh networking review", published 30 days and one tick before the start
EntryStale ==
    [url |-> "u7", title |-> {"mesh", "networking"}, description |-> {},
     content |-> {}, words |-> 3, techwords |-> {}, mentions |-> <<>>,
     published |-> StartNow - RetentionDays * DayTicks - 1]

\* an item without a <title>: "Wireless 5G rollout" is its summary
EntryNoTitle ==
    [url |-> "u8", description |-> {"wireless", "5g"}, content |-> {},
     words |-> 5, techwords |-> {"wireless", "5g"}, mentions |-> <<>>,
     published |-> StartNow - 1]
\* an item without a <link>: "Mesh wifi guide"
EntryNoLink ==
    [title |-> {"mesh", "wifi"}, description |-> {}, content |-> {},
     words |-> 3, techwords |-> {}, mentions |-> <<>>,
     published |-> StartNow - 1]

\* "CES 2026 day two: 5G IoT gadgets", an item without a date that the
\* second feed carries while the show is on
EntryShow ==
    [url |-> "u10", title |-> {"ces", "5g", "iot"}, description |-> {},
     content |-> {}, words |-> 7, techwords |-> {"5g", "iot"},
     mentions |-> <<[name |-> "ces", text |-> "CES", year |-> 2026]>>,
     published |-> NoTime]

\* the days of CES 2026, 7 to 10 January
ShowOpen(t) == DayOrd(DayOf(t)) \in Ord(2026, 1, 7)..Ord(2026, 1, 10)

\* the items the first feed carries in the last week of 2026, none with a
\* date: "CES 2027 preview: 5G tech"
EntryPreview ==
    [url |-> "u11", title |-> {"ces", "5g", "tech"}, description |-> {},
     content |-> {}, words |-> 5, techwords |-> {"5g", "tech"},
     mentions |-> <<[name |-> "ces", text |-> "CES", year |-> 2027]>>,
     published |-> NoTime]
\* "IoT gadgets expected at CES 2027"
EntryPreviewIot ==
    [url |-> "u12", title |-> {"iot", "ces"}, description |-> {},
     content |-> {}, words |-> 6, techwords |-> {"iot"},
     mentions |-> <<[name |-> "ces", text |-> "CES", year |-> 2027]>>,
     published |-> NoTime]
\* "Smart Expo 2027: 5G tech at Smart Expo 2027"
EntryExpo ==
    [url |-> "u13", title |-> {"5g", "tech", "expo"}, description |-> {},
     content |-> {}, words |-> 8, techwords |-> {"5g", "tech"},
     mentions |-> <<[name |-> "smart expo", text |-> "Smart Expo", year |-> 2027],
                    [name |-> "smart expo", text |-> "Smart Expo", year |-> 2027]>>,
     published |-> NoTime]
YearEndDoc == <<EntryPreview, EntryPreviewIot, EntryExpo>>

\* the last week of 2026
YearEnd(t) == DayOrd(DayOf(t)) \in Ord(2026, 12, 24)..Ord(2026, 12, 31)

\* the document a feed serves when it answers with one that parses
FeedDoc(fid) ==
    IF fid = 1 THEN <<EntryCes, EntryWorld, EntryEdge, EntryOffTopic>>
    ELSE <<EntryCesFloor, EntryStale, EntryWifi, EntryOffTopic>>

\* the document the second feed serves on a bad day: two items that lack a
\* tag, then a complete one
BrokenDoc == <<EntryNoTitle, EntryNoLink, EntryWifi>>

\* requests.get + feedparser.parse: the request raises, or the parser
\* returns entries; an unparseable document yields bozo and no entries
Responses(fid, t) ==
    {[raised |-> TRUE, bozo |-> FALSE, entries |-> <<>>],
     [raised |-> FALSE, bozo |-> TRUE, entries |-> <<>>],
     [raised |-> FALSE, bozo |-> FALSE, entries |-> FeedDoc(fid)]}
    \cup (IF fid = 2
          THEN {[raised |-> FALSE, bozo |-> FALSE, entries |-> BrokenDoc]}
          ELSE {})
    \cup (IF fid = 2 /\ ShowOpen(t)
          THEN {[raised |-> FALSE, bozo |-> FALSE, entries |-> <<EntryShow>>]}
          ELSE {})
    \cup (IF fid = 1 /\ YearEnd(t)
          THEN {[raised |-> FALSE, bozo |-> FALSE, entries |-> YearEndDoc]}
          ELSE {})

\* entry.link: feedparser raises AttributeError when the item has no link
HasLink(e) == "url" \in DOMAIN e

\* entry.get('title', 'No Title'): the default holds no vocabulary term; it
\* is kept as a term of its own
NoTitle == {"no title"}
EntryTitle(e) == IF "title" \in DOMAIN e THEN e.title ELSE NoTitle

\* parsed_feed.entries[:20], with the model's cap in place of 20
Limit(es) == SubSeq(es, 1, Min(Len(es), MaxEntries))

\* f"{title} {description} {content}".lower()
EntryText(e) ==
    [toks |-> EntryTitle(e) \cup e.description \cup e.content, words |-> e.words]

RECURSIVE SortedSeq(_)
\* the elements of a set of integers in ascending order (rowid order)
SortedSeq(S) ==
    IF S = {} THEN <<>>
    ELSE LET m == CHOOSE x \in S : \A y \in S : x <= y
         IN <<m>> \o SortedSeq(S \ {m})

\* SELECT * FROM rss_feeds WHERE active = 1
ActiveFeeds(v) == SortedSeq({f.id : f \in {g \in v.feeds : g.active}})

\* the locals of a handler before it starts
LocInit ==
    [op |-> None, feeds |-> <<>>, fi |-> 0, entries |-> <<>>, ei |-> 0,
     score |-> 0, total |-> 0, runs |-> 0,
     work |-> <<>>, wi |-> 0, batch |-> <<>>,
     day |-> 0, week |-> 0, top |-> <<>>, q |-> 0,
     failed |-> {}, touched |-> {}, visited |-> {}, known |-> TRUE,
     same |-> FALSE, links0 |-> {}, unseen |-> {}]

\* image_conn.execute('UPDATE articles SET image_url = ? WHERE id = ?') and
\* image_conn.commit(), on a connection of its own: it writes only if no
\* other connection holds the write lock, and only a committed row
ImageWriteBack(committed, holder, id, found) ==
    IF found /\ holder = None
    THEN [committed EXCEPT !.articles =
            {IF a.id = id THEN [a EXCEPT !.image = TRUE] ELSE a : a \in @}]
    ELSE committed

(***************************************************************************)
(* Threads and how a handler returns to its caller.                        *)
(*   the start-up thread runs fetch_rss_feeds once and ends;               *)
(*   a request thread runs one route and answers (every route that calls   *)
(*   the pipeline catches what it raises);                                 *)
(*   the scheduler thread runs the due jobs from schedule.run_pending(),   *)
(*   which does not catch what a job raises: the thread dies.              *)
(***************************************************************************)
\* where thread p goes when its handler returns
AfterReturn(p) ==
    IF p = Startup THEN "done"
    ELSE IF p = Sched THEN "sleep"
    ELSE "idle"

\* where thread p goes when its handler raises
AfterRaise(p) ==
    IF p = Startup THEN "done"
    ELSE IF p = Sched THEN "crashed"
    ELSE "idle"

\* the interpreter collects the abandoned connection: its transaction is
\* rolled back and the write lock released
CollectGarbage ==
    /\ lockOwner = Abandoned
    /\ lockOwner' = None
    /\ tx' = db
    /\ UNCHANGED <<now, db, pc, loc, running, due, hist>>

\* one more fetch pass, request, sweep, digest build may start
CanCall == hist.calls < MaxCalls
CanEdit == hist.edits < MaxEdits
CanSweep == hist.cleanups < MaxSweeps
CanBuild == hist.starts < MaxBuilds

(***************************************************************************)
(* fetch_rss_feeds                                                         *)
(***************************************************************************)
\* lines 1713-1716: open the connection, read the active feeds
FetchBegin(p) ==
    /\ CanCall
    /\ loc' = [loc EXCEPT ![p] =
                 [LocInit EXCEPT !.op = "fetch",
                                 !.feeds = ActiveFeeds(View(p)),
                                 !.fi = 1]]
    /\ pc' = [pc EXCEPT ![p] =
                 IF ActiveFeeds(View(p)) = <<>> THEN "f_finish" ELSE "f_feed"]
    /\ hist' = [hist EXCEPT !.calls = @ + 1]
    /\ UNCHANGED <<now, db, tx, lockOwner, running, due>>

\* the position after the loop body of feed fi ended (normally or in the
\* per-feed except)
NextFeedPc(l) == IF l.fi + 1 > Len(l.feeds) THEN "f_finish" ELSE "f_feed"

\* the entries with a link that the loop of feed fi has not reached when an
\* exception ends it, with the cause
Remaining(l, cause) ==
    {[url |-> l.entries[i].url, by |-> cause] :
        i \in {j \in (l.ei + 1)..Len(l.entries) : HasLink(l.entries[j])}}

\* every entry of the response is stored already, as p's connection sees it
AllStored(v, es) ==
    \A i \in 1..Len(es) : HasLink(es[i]) /\ ExistingArticle(v, es[i].url)

\* lines 1718-1726: request and parse one feed
FetchRequest(p) ==
    /\ pc[p] = "f_feed"
    /\ LET l == loc[p]
           fid == l.feeds[l.fi]
       IN \E r \in Responses(fid, now) :
            IF r.raised
            THEN /\ loc' = [loc EXCEPT ![p].fi = @ + 1,
                                       ![p].visited = @ \cup {fid},
                                       ![p].failed = @ \cup {fid}]
                 /\ pc' = [pc EXCEPT ![p] = NextFeedPc(l)]
            ELSE /\ loc' = [loc EXCEPT ![p].entries = Limit(r.entries),
                                       ![p].ei = 1,
                                       ![p].visited = @ \cup {fid},
                                       ![p].failed =
                                           IF r.bozo THEN @ \cup {fid} ELSE @,
                                       ![p].known =
                                           @ /\ AllStored(View(p), Limit(r.entries))]
                 /\ pc' = [pc EXCEPT ![p] = "f_check"]
    /\ UNCHANGED <<now, db, tx, lockOwner, running, due, hist>>

\* lines 1726-1769 for the next entry, or lines 1816-1817 after the last
FetchCheck(p) ==
    /\ pc[p] = "f_check"
    /\ LET l == loc[p]
           fid == l.feeds[l.fi]
           v == View(p)
       IN IF l.ei > Len(l.entries)
          THEN \* UPDATE rss_feeds SET last_fetched
               IF CanWrite(p)
               THEN /\ tx' = TouchFeed(v, fid, now)
                    /\ Wrote(p)
                    /\ loc' = [loc EXCEPT ![p].fi = @ + 1,
                                          ![p].touched = @ \cup {fid}]
                    /\ pc' = [pc EXCEPT ![p] = NextFeedPc(l)]
               ELSE \* database is locked: the per-feed except
                    /\ loc' = [loc EXCEPT ![p].fi = @ + 1]
                    /\ pc' = [pc EXCEPT ![p] = NextFeedPc(l)]
                    /\ UNCHANGED <<tx, lockOwner>>
          ELSE IF ~HasLink(l.entries[l.ei])
          THEN \* AttributeError at entry.link: the per-feed except, the
               \* entries that follow are not looked at
               /\ loc' = [loc EXCEPT ![p].fi = @ + 1,
                                     ![p].failed = @ \cup {fid},
                                     ![p].unseen = @ \cup Remaining(l, "link")]
               /\ pc' = [pc EXCEPT ![p] = NextFeedPc(l)]
               /\ UNCHANGED <<tx, lockOwner>>
          ELSE LET e == l.entries[l.ei]
                   relevance_score == calculate_relevance_score(EntryText(e))
               IN /\ IF ExistingArticle(v, e.url)
                     THEN /\ loc' = [loc EXCEPT ![p].ei = @ + 1]
                          /\ pc' = pc
                     ELSE IF relevance_score > IngestThreshold
                     THEN /\ loc' = [loc EXCEPT ![p].score = relevance_score]
                          /\ pc' = [pc EXCEPT ![p] = "f_insert"]
                     ELSE /\ loc' = [loc EXCEPT ![p].ei = @ + 1]
                          /\ pc' = pc
                  /\ UNCHANGED <<tx, lockOwner>>
    /\ UNCHANGED <<now, db, running, due, hist>>

\* the row of lines 1770-1773
ArticleRow(fid, e, score, t) ==
    [id |-> 0, feed_id |-> fid, url |-> e.url, title |-> EntryTitle(e),
     description |-> e.description, techwords |-> e.techwords,
     mentions |-> e.mentions,
     published |-> TickStamp(IF e.published = NoTime THEN t ELSE e.published),
     score |-> score, image |-> FALSE]

\* lines 1770-1814: insert the article, then resolve its image
FetchInsert(p) ==
    /\ pc[p] = "f_insert"
    /\ LET l == loc[p]
           fid == l.feeds[l.fi]
           e == l.entries[l.ei]
           v == View(p)
       IN IF ~CanWrite(p)
          THEN \* database is locked: the per-feed except
               /\ loc' = [loc EXCEPT ![p].fi = @ + 1,
                                     ![p].unseen = @ \cup Remaining(l, "locked")]
               /\ pc' = [pc EXCEPT ![p] = NextFeedPc(l)]
               /\ UNCHANGED <<db, tx, lockOwner>>
          ELSE IF ~ArticleUrlUnique(v, e.url)
          THEN \* IntegrityError: the per-feed except; the transaction the
               \* statement opened stays open
               /\ loc' = [loc EXCEPT ![p].fi = @ + 1,
                                     ![p].unseen = @ \cup Remaining(l, "duplicate")]
               /\ pc' = [pc EXCEPT ![p] = NextFeedPc(l)]
               /\ tx' = v
               /\ Wrote(p)
               /\ db' = db
          ELSE /\ tx' = InsertArticle(v, ArticleRow(fid, e, l.score, now))
               /\ Wrote(p)
               /\ \E found \in BOOLEAN :
                    db' = ImageWriteBack(db, p, v.seqArticle + 1, found)
               /\ loc' = [loc EXCEPT ![p].ei = @ + 1, ![p].total = @ + 1]
               /\ pc' = [pc EXCEPT ![p] = "f_check"]
    /\ UNCHANGED <<now, running, due, hist>>

\* a fetch pass that analysed only on the periodic draw
FetchFinishPeriodicOnly(p) ==
    /\ pc[p] = "f_finish"
    /\ CanWrite(p)
    /\ db' = PutSetting(View(p), LastFetchKey)
    /\ tx' = PutSetting(View(p), LastFetchKey)
    /\ Ended(p)
    /\ \E again \in {0, 1} :
         IF again = 0
         THEN /\ pc' = [pc EXCEPT ![p] = AfterReturn(p)]
              /\ loc' = [loc EXCEPT ![p] = LocInit]
         ELSE /\ pc' = [pc EXCEPT ![p] = "a_detect"]
              /\ loc' = [loc EXCEPT ![p].runs = 1]
    /\ UNCHANGED <<now, running, due, hist>>

\* lines 1822-1840: record the fetch time, commit, then analyse: once if
\* the pass added articles, and once more on one fetch in ten
FetchFinish(p) ==
    /\ pc[p] = "f_finish"
    /\ IF CanWrite(p)
       THEN /\ db' = PutSetting(View(p), LastFetchKey)
            /\ tx' = PutSetting(View(p), LastFetchKey)
            /\ Ended(p)
            /\ \E again \in {0, 1} :
                 LET runs == (IF loc[p].total > 0 THEN 1 ELSE 0) + again
                 IN IF runs = 0
                    THEN /\ pc' = [pc EXCEPT ![p] = AfterReturn(p)]
                         /\ loc' = [loc EXCEPT ![p] = LocInit]
                    ELSE /\ pc' = [pc EXCEPT ![p] = "a_detect"]
                         /\ loc' = [loc EXCEPT ![p].runs = runs]
       ELSE \* database is locked, outside every try: the pass raises
            /\ pc' = [pc EXCEPT ![p] = AfterRaise(p)]
            /\ loc' = [loc EXCEPT ![p] = LocInit]
            /\ UNCHANGED <<db, tx, lockOwner>>
    /\ UNCHANGED <<now, running, due, hist>>

(***************************************************************************)
(* Event detection: detect_new_events_from_articles, estimate_event_dates. *)
(* What the regular expressions find in an article is part of the input    *)
(* (the mentions of the article).  The order of the stored hashtags is the *)
(* iteration order of a Python set; no list of the model is long enough    *)
(* for the [:10] and [:8] cuts to drop a keyword, so the order of          *)
(* TechWords stands for it.                                                *)
(***************************************************************************)
\* the words of the candidate-article filter of lines 1951-1954
TriggerWords == {"conference", "summit", "expo", "show", "event", "ces", "mwc", "tech"}

\* the tech_keywords list of line 1993, in a fixed order
TechWords == <<"wireless", "ai", "iot", "5g", "6g", "tech", "innovation", "digital">>

\* known_events of estimate_event_dates: [month, start_day, duration]; the
\* lookup is by substring, so "apple wwdc" finds the entry of 'wwdc'
KnownEvents(name) ==
    IF name = "ces" THEN <<1, 7, 4>>
    ELSE IF name = "mwc" THEN <<2, 26, 4>>
    ELSE IF name = "rsa" THEN <<5, 6, 4>>
    ELSE IF name = "computex" THEN <<5, 28, 5>>
    ELSE IF name \in {"wwdc", "apple wwdc"} THEN <<6, 5, 5>>
    ELSE IF name = "black hat" THEN <<8, 3, 4>>
    ELSE IF name = "ifa" THEN <<9, 1, 6>>
    ELSE IF name = "oracle openworld" THEN <<9, 16, 4>>
    ELSE <<>>

\* estimate_event_dates(event_name, year) when the clock reads t
estimate_event_dates(name, year, t) ==
    LET k == KnownEvents(name)
        next_month == DayYMD(DayOf(t)).m + 1
    IN IF k # <<>>
       THEN [start |-> [y |-> year, m |-> k[1], d |-> k[2], part |-> 0],
             end |-> [y |-> year, m |-> k[1], d |-> k[2] + k[3] - 1, part |-> 0]]
       ELSE IF next_month > 12
       THEN [start |-> [y |-> year + 1, m |-> 1, d |-> 15, part |-> 0],
             end |-> [y |-> year + 1, m |-> 1, d |-> 17, part |-> 0]]
       ELSE [start |-> [y |-> year, m |-> next_month, d |-> 15, part |-> 0],
             end |-> [y |-> year, m |-> next_month, d |-> 17, part |-> 0]]

\* f"#{name.replace(' ', '')}{year}" with '#' removed and lower-cased: the
\* keyword the correlator derives from the default hashtag
DefaultTag(name, year) ==
    IF name = "ces" /\ year = 2026 THEN "ces2026"
    ELSE IF name = "mobile world" /\ year = 2026 THEN "mobileworld2026"
    ELSE "othertag"

\* lines 1947-1955: the recent candidate articles, in rowid order
DetectCandidates(v, t) ==
    SortedSeq({a.id : a \in {b \in v.articles :
        /\ SqlDate(b.published) # Null
        /\ SqlDate(b.published) >= DayOrd(DayOf(t) - 3)
        /\ b.title \cap TriggerWords # {}}})

ArticleById(v, id) == CHOOSE a \in v.articles : a.id = id

RECURSIVE Occurrences(_, _, _)
\* lines 1960-1989: every match of every candidate article that is not of a
\* past year, in the order the loops meet them
Occurrences(v, ids, t) ==
    IF ids = <<>> THEN <<>>
    ELSE LET a == ArticleById(v, Head(ids))
             ms == SelectSeq(a.mentions,
                       LAMBDA m : m.year >= DayYMD(DayOf(t)).y)
         IN [i \in 1..Len(ms) |->
                [name |-> ms[i].name, text |-> ms[i].text, year |-> ms[i].year,
                 article |-> a.id]]
            \o Occurrences(v, Tail(ids), t)

RECURSIVE FirstSeen(_, _)
\* the keys of detected_events in insertion order
FirstSeen(occ, seen) ==
    IF occ = <<>> THEN <<>>
    ELSE IF Head(occ).name \in seen THEN FirstSeen(Tail(occ), seen)
    ELSE <<Head(occ).name>> \o FirstSeen(Tail(occ), seen \cup {Head(occ).name})

\* the words of an article's content that are tech keywords (lines 1992-1994)
TechWordsOf(a) == {TechWords[i] : i \in 1..Len(TechWords)} \cap a.techwords

\* the detected_events entry of a key
Detected(v, occ, name) ==
    LET mine == SelectSeq(occ, LAMBDA o : o.name = name)
    IN [name |-> name,
        text |-> mine[1].text,
        year |-> mine[1].year,
        articles |-> [i \in 1..Len(mine) |-> mine[i].article],
        keywords |-> UNION {TechWordsOf(ArticleById(v, mine[i].article)) :
                               i \in 1..Len(mine)}]

\* line 1998: enough articles mention the event
EnoughSupport(entry) == Len(entry.articles) >= 2

\* lines 2004-2008: an event of that name and year is already stored
ExistingEvent(v, name, year) ==
    \E ev \in v.events : ev.name = name /\ ev.start.y = year

\* lines 2011-2014: the stored hashtags, as the keyword list they become
EventKeywords(entry) ==
    IF entry.keywords = {}
    THEN <<DefaultTag(entry.name, entry.year)>>
    ELSE SelectSeq(TechWords, LAMBDA w : w \in entry.keywords)

\* INSERT INTO industry_events
InsertEvent(v, entry, dates) ==
    [v EXCEPT !.events = @ \cup
                 {[id |-> v.seqEvent + 1, name |-> entry.name,
                   text |-> entry.text, year |-> entry.year,
                   keywords |-> EventKeywords(entry),
                   start |-> dates.start, end |-> dates.end, active |-> TRUE]},
              !.seqEvent = @ + 1]

RECURSIVE AddDetected(_, _, _, _)
\* lines 1997-2031 over the keys in order
AddDetected(v, occ, names, t) ==
    IF names = <<>> THEN v
    ELSE LET entry == Detected(v, occ, Head(names))
             next ==
                 IF EnoughSupport(entry) /\ ~ExistingEvent(v, entry.name, entry.year)
                 THEN InsertEvent(v, entry,
                          estimate_event_dates(entry.name, entry.year, t))
                 ELSE v
         IN AddDetected(next, occ, Tail(names), t)

\* the store after detect_new_events_from_articles ran on view v with no
\* lock in its way
DetectNewEvents(v, t) ==
    LET occ == Occurrences(v, DetectCandidates(v, t), t)
    IN AddDetected(v, occ, FirstSeen(occ, {}), t)

(***************************************************************************)
(* Event correlation: analyze_articles_for_events.                         *)
(***************************************************************************)
\* lines 1873-1881: the active events near today
EventInWindow(ev, t) ==
    /\ ev.active
    /\ \/ /\ SqlDate(ev.start) # Null
          /\ SqlDate(ev.start) >= DayOrd(DayOf(t))
          /\ SqlDate(ev.start) <= DayOrd(DayOf(t) + 14)
       \/ /\ SqlDate(ev.end) # Null
          /\ SqlDate(ev.end) >= DayOrd(DayOf(t) - 5)
          /\ SqlDate(ev.end) <= DayOrd(DayOf(t))

ActiveEvents(v, t) == {ev \in v.events : EventInWindow(ev, t)}

EventById(v, id) == CHOOSE ev \in v.events : ev.id = id

RECURSIVE WorkList(_, _)
\* lines 1889-1898: the (event, keyword) pairs in loop order; keywords[:8]
WorkList(v, ids) ==
    IF ids = <<>> THEN <<>>
    ELSE LET ev == EventById(v, Head(ids))
             kws == SubSeq(ev.keywords, 1, Min(Len(ev.keywords), 8))
         IN [i \in 1..Len(kws) |->
                [event |-> ev.id, keywords |-> ev.keywords, kw |-> kws[i]]]
            \o WorkList(v, Tail(ids))

\* the query of lines 1899-1905 without its NOT IN clause
LinkedOrNot(v, event, article) == TRUE

\* AND id NOT IN (SELECT article_id FROM event_articles WHERE event_id = ?)
NotLinked(v, event, article) ==
    ~\E l \in v.links : l.event_id = event /\ l.article_id = article

\* lines 1899-1905: the articles of the last days that match the keyword
\* and are not linked to the event yet
MatchingArticles(v, w, t) ==
    {a \in v.articles :
        /\ w.kw \in a.title \/ w.kw \in a.description
        /\ SqlDate(a.published) # Null
        /\ SqlDate(a.published) >= DayOrd(DayOf(t) - 5)
        /\ NotLinked(v, w.event, a.id)}

\* how many keywords of the list occur in a text
MatchCount(kws, text) == Cardinality({i \in 1..Len(kws) : kws[i] \in text})

\* lines 1909-1912, times 1000, before the division
RelevanceNumerator(kws, a) ==
    MatchCount(kws, a.title) * 400 + MatchCount(kws, a.description) * 300

\* line 1912: event_relevance, in thousandths
EventRelevance(kws, a) ==
    Min(RelevanceNumerator(kws, a) \div Len(kws), ScoreMax)

\* line 1914: event_relevance > 0.15
RelevantEnough(kws, a) == RelevanceNumerator(kws, a) > 150 * Len(kws)

\* the rows the inner loop inserts for one (event, keyword) pair
LinkBatch(v, w, t) ==
    LET ids == SortedSeq({a.id : a \in {b \in MatchingArticles(v, w, t) :
                                          RelevantEnough(w.keywords, b)}})
    IN [i \in 1..Len(ids) |->
           [article |-> ids[i],
            score |-> EventRelevance(w.keywords, ArticleById(v, ids[i]))]]

\* the link rows of a batch, and the event score written over the score of
\* each linked article
InsertLinksRescoring(v, event, batch) ==
    [v EXCEPT !.links = @ \cup
                 {[id |-> v.seqLink + i, event_id |-> event,
                   article_id |-> batch[i].article,
                   score |-> batch[i].score] : i \in 1..Len(batch)},
              !.seqLink = @ + Len(batch),
              !.articles =
                 {IF \E i \in 1..Len(batch) : batch[i].article = a.id
                  THEN [a EXCEPT !.score =
                          batch[CHOOSE i \in 1..Len(batch) :
                                    batch[i].article = a.id].score]
                  ELSE a : a \in @}]

RECURSIVE InsertLinks(_, _, _)
\* INSERT OR IGNORE INTO event_articles, row by row; the table has no
\* unique index, so nothing is ever ignored
InsertLinks(v, event, batch) ==
    IF batch = <<>> THEN v
    ELSE InsertLinks(
            [v EXCEPT !.links = @ \cup
                         {[id |-> v.seqLink + 1, event_id |-> event,
                           article_id |-> Head(batch).article,
                           score |-> Head(batch).score]},
                      !.seqLink = @ + 1],
            event, Tail(batch))

\* the analysis run of thread p ended; the next one starts or the handler
\* that asked for it returns
EndRun(p, l) ==
    IF l.runs > 1
    THEN /\ pc' = [pc EXCEPT ![p] = "a_detect"]
         /\ loc' = [loc EXCEPT ![p] = [l EXCEPT !.runs = @ - 1]]
    ELSE /\ pc' = [pc EXCEPT ![p] = AfterReturn(p)]
         /\ loc' = [loc EXCEPT ![p] = LocInit]

\* lines 1865-1885: detect new events (an INSERT refused the lock ends the
\* detection in its own except), then read the events near today
AnalyzeBegin(p) ==
    /\ pc[p] = "a_detect"
    /\ LET v0 == View(p)
           det == DetectNewEvents(v0, now)
           wrote == det # v0 /\ CanWrite(p)
           v1 == IF wrote THEN det ELSE v0
           evs == SortedSeq({ev.id : ev \in ActiveEvents(v1, now)})
       IN IF evs = <<>>
          THEN \* conn.close() without a commit: what was detected is lost
               /\ Ended(p)
               /\ tx' = IF wrote \/ lockOwner = p THEN db ELSE tx
               /\ EndRun(p, loc[p])
          ELSE /\ lockOwner' = IF wrote THEN p ELSE lockOwner
               /\ tx' = IF wrote THEN v1 ELSE tx
               /\ loc' = [loc EXCEPT ![p].work = WorkList(v1, evs),
                                     ![p].wi = 1,
                                     ![p].same =
                                         /\ hist.corrPrev.day = DayOf(now)
                                         /\ hist.corrPrev.events = v1.events
                                         /\ hist.corrPrev.articles = v1.articles,
                                     ![p].links0 = v1.links]
               /\ pc' = [pc EXCEPT ![p] = "a_select"]
    /\ UNCHANGED <<now, db, running, due, hist>>

\* lines 1898-1905: the query of the next (event, keyword) pair
AnalyzeSelect(p) ==
    /\ pc[p] = "a_select"
    /\ LET l == loc[p]
       IN IF l.wi > Len(l.work)
          THEN /\ pc' = [pc EXCEPT ![p] = "a_commit"]
               /\ loc' = loc
          ELSE LET batch == LinkBatch(View(p), l.work[l.wi], now)
               IN IF batch = <<>>
                  THEN /\ loc' = [loc EXCEPT ![p].wi = @ + 1]
                       /\ pc' = pc
                  ELSE /\ loc' = [loc EXCEPT ![p].batch = batch]
                       /\ pc' = [pc EXCEPT ![p] = "a_insert"]
    /\ UNCHANGED <<now, db, tx, lockOwner, running, due, hist>>

\* lines 1907-1919: the inserts of the pair; "database is locked" ends the
\* run in the except of line 1927, the connection left as it is
AnalyzeInsert(p) ==
    /\ pc[p] = "a_insert"
    /\ LET l == loc[p]
       IN IF CanWrite(p)
          THEN /\ tx' = InsertLinks(View(p), l.work[l.wi].event, l.batch)
               /\ Wrote(p)
               /\ loc' = [loc EXCEPT ![p].wi = @ + 1, ![p].batch = <<>>]
               /\ pc' = [pc EXCEPT ![p] = "a_select"]
          ELSE /\ UNCHANGED <<tx, lockOwner>>
               /\ EndRun(p, l)
    /\ UNCHANGED <<now, db, running, due, hist>>

\* lines 1921-1922: commit and close
AnalyzeCommit(p) ==
    /\ pc[p] = "a_commit"
    /\ db' = View(p)
    /\ tx' = tx
    /\ Ended(p)
    /\ hist' = [hist EXCEPT !.corrPrev =
                   [day |-> DayOf(now), events |-> View(p).events,
                    articles |-> View(p).articles]]
    /\ EndRun(p, loc[p])
    /\ UNCHANGED <<now, running, due>>

(***************************************************************************)
(* Manual correlation: POST /api/analyze_event_articles.                   *)
(***************************************************************************)
\* the day number of a date text (DATE(x, '+n days') counts from it)
StampDay(s) == (s.y - BaseYear) * YearDays + CumDays[s.m] + s.d - 1

\* lines 1018-1023: the active events the route looks at
ManualEvents(v, t) ==
    {ev \in v.events :
        /\ ev.active
        /\ SqlDate(ev.start) # Null
        /\ SqlDate(ev.end) # Null
        /\ SqlDate(ev.start) <= DayOrd(DayOf(t) + 14)
        /\ SqlDate(ev.end) >= DayOrd(DayOf(t) - 7)}

RECURSIVE ManualWorkList(_, _)
\* lines 1027-1036: the (event, keyword) pairs in loop order; keywords[:10]
ManualWorkList(v, ids) ==
    IF ids = <<>> THEN <<>>
    ELSE LET ev == EventById(v, Head(ids))
             kws == SubSeq(ev.keywords, 1, Min(Len(ev.keywords), 10))
         IN [i \in 1..Len(kws) |->
                [event |-> ev.id, keywords |-> ev.keywords, kw |-> kws[i],
                 start |-> ev.start, end |-> ev.end]]
            \o ManualWorkList(v, Tail(ids))

\* lines 1037-1044: the articles around the days of the event that match
\* the keyword and are not linked to the event yet
ManualMatching(v, w) ==
    {a \in v.articles :
        /\ w.kw \in a.title \/ w.kw \in a.description
        /\ SqlDate(a.published) # Null
        /\ SqlDate(a.published) >= DayOrd(StampDay(w.start) - 3)
        /\ SqlDate(a.published) <= DayOrd(StampDay(w.end) + 7)
        /\ NotLinked(v, w.event, a.id)}

\* lines 1048-1051, times 1000, before the division
ManualNumerator(kws, a) ==
    MatchCount(kws, a.title) * 300 + MatchCount(kws, a.description) * 200

\* line 1051: event_relevance, in thousandths
ManualRelevance(kws, a) ==
    Min(ManualNumerator(kws, a) \div Len(kws), ScoreMax)

\* line 1053: event_relevance > 0.1
ManualRelevantEnough(kws, a) == ManualNumerator(kws, a) > 100 * Len(kws)

\* the rows the inner loop looks at for one (event, keyword) pair
ManualBatch(v, w) ==
    LET ids == SortedSeq({a.id : a \in {b \in ManualMatching(v, w) :
                                          ManualRelevantEnough(w.keywords, b)}})
    IN [i \in 1..Len(ids) |->
           [article |-> ids[i],
            score |-> ManualRelevance(w.keywords, ArticleById(v, ids[i]))]]

\* lines 1054-1065: of the batch, the rows whose pair the check of line 1055
\* does not find
StillUnlinked(v, event, batch) ==
    SelectSeq(batch, LAMBDA b : NotLinked(v, event, b.article))

\* lines 1014-1023: the route reads the events
analyze_event_articles(p) ==
    /\ pc[p] = "idle"
    /\ CanEdit
    /\ loc' = [loc EXCEPT ![p] =
                 [LocInit EXCEPT
                     !.op = "correlate",
                     !.work = ManualWorkList(View(p),
                                 SortedSeq({ev.id : ev \in ManualEvents(View(p), now)})),
                     !.wi = 1]]
    /\ pc' = [pc EXCEPT ![p] = "m_select"]
    /\ hist' = [hist EXCEPT !.edits = @ + 1]
    /\ UNCHANGED <<now, db, tx, lockOwner, running, due>>

\* lines 1036-1044: the query of the next (event, keyword) pair
ManualSelect(p) ==
    /\ pc[p] = "m_select"
    /\ LET l == loc[p]
       IN IF l.wi > Len(l.work)
          THEN /\ pc' = [pc EXCEPT ![p] = "m_commit"]
               /\ loc' = loc
          ELSE LET batch == ManualBatch(View(p), l.work[l.wi])
               IN IF batch = <<>>
                  THEN /\ loc' = [loc EXCEPT ![p].wi = @ + 1]
                       /\ pc' = pc
                  ELSE /\ loc' = [loc EXCEPT ![p].batch = batch]
                       /\ pc' = [pc EXCEPT ![p] = "m_insert"]
    /\ UNCHANGED <<now, db, tx, lockOwner, running, due, hist>>

\* lines 1046-1065: the check and the insert of each row of the pair;
\* "database is locked" ends the route in its except
ManualInsert(p) ==
    /\ pc[p] = "m_insert"
    /\ LET l == loc[p]
           rows == StillUnlinked(View(p), l.work[l.wi].event, l.batch)
       IN IF rows = <<>>
          THEN /\ loc' = [loc EXCEPT ![p].wi = @ + 1, ![p].batch = <<>>]
               /\ pc' = [pc EXCEPT ![p] = "m_select"]
               /\ UNCHANGED <<tx, lockOwner>>
          ELSE IF CanWrite(p)
          THEN /\ tx' = InsertLinks(View(p), l.work[l.wi].event, rows)
               /\ Wrote(p)
               /\ loc' = [loc EXCEPT ![p].wi = @ + 1, ![p].batch = <<>>]
               /\ pc' = [pc EXCEPT ![p] = "m_select"]
          ELSE /\ pc' = [pc EXCEPT ![p] = AfterReturn(p)]
               /\ loc' = [loc EXCEPT ![p] = LocInit]
               /\ UNCHANGED <<tx, lockOwner>>
    /\ UNCHANGED <<now, db, running, due, hist>>

\* lines 1067-1068: commit and close
ManualCommit(p) ==
    /\ pc[p] = "m_commit"
    /\ db' = View(p)
    /\ tx' = tx
    /\ Ended(p)
    /\ pc' = [pc EXCEPT ![p] = AfterReturn(p)]
    /\ loc' = [loc EXCEPT ![p] = LocInit]
    /\ UNCHANGED <<now, running, due, hist>>

\* the steps of the manual correlation
ManualStep(p) ==
    \/ ManualSelect(p)
    \/ ManualInsert(p)
    \/ ManualCommit(p)

(***************************************************************************)
(* Manual detection: POST /api/detect_events.                              *)
(***************************************************************************)
\* lines 960-985: detect on a connection of the request, read the events of
\* the last hour on the same connection (the rows just inserted among
\* them), close without a commit, answer with what was read
detect_events(p) ==
    /\ pc[p] = "idle"
    /\ CanEdit
    /\ LET v0 == View(p)
           det == DetectNewEvents(v0, now)
           v1 == IF CanWrite(p) THEN det ELSE v0
       IN hist' = [hist EXCEPT !.edits = @ + 1,
                               !.reported = v1.events \ v0.events]
    /\ UNCHANGED <<now, db, tx, lockOwner, pc, loc, running, due>>

(***************************************************************************)
(* Event content search: fetch_event_content, ai_search_event_content,     *)
(* web_search_for_articles, add_web_article_to_db.  The search is the      *)
(* simulated one of the source: its articles are fixed texts.  raw holds   *)
(* the vocabulary terms that occur in the text as written (the scorer is   *)
(* handed the text without lower-casing), title and description the terms  *)
(* of the lower-cased text, as for a feed entry.                           *)
(***************************************************************************)
\* the articles of the 'CES' branch of web_search_for_articles
CesArticles ==
    <<[url |-> "w1", source |-> "TechCrunch",
       title |-> {"iot", "ces", "ai", "innovation"},
       description |-> {"wi-fi", "wireless", "6g", "iot", "smart home", "show",
                        "ces", "tech", "ai"},
       techwords |-> {"6g", "ai", "iot", "wireless"},
       raw |-> {"wireless", "smart home"}, words |-> 44],
      [url |-> "w2", source |-> "Ars Technica",
       title |-> {"wi-fi", "6g", "ces", "tech"},
       description |-> {"wi-fi", "wireless", "6g", "networking", "latency",
                        "ces", "tech"},
       techwords |-> {"6g", "wireless"},
       raw |-> {"networking", "latency"}, words |-> 49],
      [url |-> "w3", source |-> "The Verge",
       title |-> {"smart home", "ces"},
       description |-> {"wireless", "connectivity", "show", "ces", "ai"},
       techwords |-> {"ai", "wireless"},
       raw |-> {"wireless", "connectivity"}, words |-> 38],
      [url |-> "w4", source |-> "IEEE Spectrum",
       title |-> {"wireless", "ces", "tech"},
       description |-> {"wireless", "spectrum", "ces", "tech"},
       techwords |-> {"wireless"},
       raw |-> {"wireless"}, words |-> 33]>>

\* the article of the generic branch: "<name>: Latest Technology
\* Announcements and Trends" / "Comprehensive coverage of <name> featuring
\* breakthrough technologies and industry innovations from <location>."
GenericArticle(event) ==
    [url |-> IF event.name = "mobile world" THEN "w5" ELSE "w6",
     source |-> "Tech Industry News",
     title |-> {"tech"}, description |-> {"tech", "innovation"},
     techwords |-> {}, raw |-> {}, words |-> 22]

\* lines 2154-2224: the articles of an event ('CES' in event['name'] looks
\* at the name as it was written)
SimulatedArticles(event) ==
    IF event.text = "CES" THEN CesArticles ELSE <<GenericArticle(event)>>

\* lines 2227-2232: the slice a query gets
QueryResult(articles, query) ==
    IF query = "news" THEN SubSeq(articles, 1, Min(2, Len(articles)))
    ELSE IF query = "announcements"
    THEN IF Len(articles) > 2 THEN SubSeq(articles, 2, 3) ELSE articles
    ELSE IF Len(articles) > 3 THEN SubSeq(articles, 3, 4)
    ELSE SubSeq(articles, 1, Min(2, Len(articles)))

\* lines 2082-2091: the queries, by the word that picks the slice (the
\* keyword queries get the slice of the third one)
SearchQueries == <<"news", "announcements", "year">>

\* the articles the loop of lines 2096-2101 meets, in order
SearchVisits(event) ==
    LET all == SimulatedArticles(event)
    IN QueryResult(all, SearchQueries[1]) \o QueryResult(all, SearchQueries[2])
       \o QueryResult(all, SearchQueries[3])

\* f"Event Content: {source}"
WebFeedName(source) == [kind |-> "Event Content", source |-> source]

\* lines 2241-2257: the feed of a web source, created inactive when missing
WithWebFeed(v, source) ==
    IF \E f \in v.feeds : f.name = WebFeedName(source)
    THEN v
    ELSE [v EXCEPT !.feeds = @ \cup {[id |-> v.seqFeed + 1,
                                      name |-> WebFeedName(source),
                                      active |-> FALSE,
                                      last_fetched |-> NoTime]},
                   !.seqFeed = @ + 1]

WebFeedId(v, source) ==
    (CHOOSE f \in v.feeds : f.name = WebFeedName(source)).id

\* calculate_event_relevance(article_data, event), in thousandths; the
\* event name occurs in every text of the simulated search
calculate_event_relevance(article, event) ==
    LET keywords == event.keywords
        text == article.title \cup article.description
        keyword_matches == Cardinality({i \in 1..Len(keywords) : keywords[i] \in text})
        base_score == IF Len(keywords) > 0
                      THEN (keyword_matches * ScoreMax) \div Len(keywords)
                      ELSE 0
        event_bonus == 300
    IN Min(base_score + event_bonus, ScoreMax)

\* add_web_article_to_db and the link of lines 2117-2120 for one article
AddWebArticle(v, article, event) ==
    LET v1 == WithWebFeed(v, article.source)
        row == [id |-> 0, feed_id |-> WebFeedId(v1, article.source),
                url |-> article.url, title |-> article.title,
                description |-> article.description,
                techwords |-> article.techwords,
                mentions |-> <<[name |-> event.name, text |-> event.text,
                                year |-> event.year],
                               [name |-> event.name, text |-> event.text,
                                year |-> event.year]>>,
                published |-> event.start,
                score |-> calculate_relevance_score(
                              [toks |-> article.raw, words |-> article.words]),
                image |-> FALSE]
        v2 == InsertArticle(v1, row)
    IN [v2 EXCEPT !.links = @ \cup
                     {[id |-> v2.seqLink + 1, event_id |-> event.id,
                       article_id |-> v2.seqArticle,
                       score |-> calculate_event_relevance(article, event)]},
                  !.seqLink = @ + 1]

RECURSIVE AddVisited(_, _, _)
\* lines 2096-2122 over the visited articles
AddVisited(v, visits, event) ==
    IF visits = <<>> THEN v
    ELSE AddVisited(
            IF ExistingArticle(v, Head(visits).url)
            THEN v
            ELSE AddWebArticle(v, Head(visits), event),
            Tail(visits), event)

\* POST /api/fetch_event_content/<event_id>: when another connection holds
\* the write lock every insert is refused and caught, nothing is stored
FetchEventContent(p, event) ==
    /\ pc[p] = "idle"
    /\ CanEdit
    /\ event \in db.events
    /\ IF CanWrite(p)
       THEN /\ db' = AddVisited(db, SearchVisits(event), event)
            /\ tx' = AddVisited(db, SearchVisits(event), event)
       ELSE UNCHANGED <<db, tx>>
    /\ hist' = [hist EXCEPT !.edits = @ + 1]
    /\ UNCHANGED <<now, lockOwner, pc, loc, running, due>>

(***************************************************************************)
(* Retention sweep and feed deletion.                                      *)
(***************************************************************************)
\* DATE("now", "-30 days"): a date text
RetentionCutoff(t) ==
    LET c == DayYMD(DayOf(t) - RetentionDays)
    IN [y |-> c.y, m |-> c.m, d |-> c.d, part |-> 0]

\* a sweep that compares the publish time with the time 30 days ago
ExpiredByAge(a, t) == StampTick(a.published) < t - RetentionDays * DayTicks

\* published_date < DATE("now", "-30 days"), a comparison of texts
Expired(a, t) == StampKey(a.published) < StampKey(RetentionCutoff(t))

\* DELETE FROM articles WHERE published_date < DATE("now", "-30 days")
DeleteExpired(v, t) ==
    [v EXCEPT !.articles = {a \in @ : ~Expired(a, t)}]

\* the urls of the articles a sweep at t removes
ExpiredUrls(v, t) == {a.url : a \in {b \in v.articles : Expired(b, t)}}

\* cleanup_old_articles as the scheduler runs it: nothing catches the
\* "database is locked" of the DELETE
CleanupJob ==
    /\ CanSweep
    /\ IF CanWrite(Sched)
       THEN /\ db' = DeleteExpired(db, now)
            /\ tx' = DeleteExpired(db, now)
            /\ pc' = [pc EXCEPT ![Sched] = AfterReturn(Sched)]
            /\ hist' = [hist EXCEPT !.cleanups = @ + 1, !.sweeps = @ + 1,
                                    !.expired = @ \cup ExpiredUrls(db, now)]
       ELSE /\ pc' = [pc EXCEPT ![Sched] = AfterRaise(Sched)]
            /\ hist' = [hist EXCEPT !.cleanups = @ + 1]
            /\ UNCHANGED <<db, tx>>
    /\ UNCHANGED <<now, lockOwner, loc, running, due>>

\* run_scheduler: run_pending() finds the cleanup job due (daily)
cleanup_old_articles ==
    /\ pc[Sched] = "sleep"
    /\ running
    /\ CleanupJob

\* DELETE FROM articles WHERE feed_id = ?; DELETE FROM rss_feeds WHERE id = ?
DeleteFeedRows(v, fid) ==
    [v EXCEPT !.articles = {a \in @ : a.feed_id # fid},
              !.feeds = {f \in @ : f.id # fid}]

\* POST /delete_feed/<feed_id>; a refused DELETE is caught by the route
delete_feed(p, fid) ==
    /\ pc[p] = "idle"
    /\ CanEdit
    /\ \E f \in db.feeds : f.id = fid
    /\ IF CanWrite(p)
       THEN /\ db' = DeleteFeedRows(db, fid)
            /\ tx' = DeleteFeedRows(db, fid)
       ELSE UNCHANGED <<db, tx>>
    /\ hist' = [hist EXCEPT !.edits = @ + 1]
    /\ UNCHANGED <<now, lockOwner, pc, loc, running, due>>

\* lines 1556-1561: the failure conditions of verify_feed (the model's
\* responses carry no status code)
VerifyFails(r) == r.raised \/ r.bozo \/ r.entries = <<>>

\* GET /api/verify_feed/<feed_id>: the feed is requested and parsed; a feed
\* that fails is removed with its articles.  A refused DELETE is raised to
\* the web server
verify_feed(p, fid) ==
    /\ pc[p] = "idle"
    /\ CanEdit
    /\ \E f \in db.feeds : f.id = fid
    /\ \E r \in Responses(fid, now) :
         IF VerifyFails(r) /\ CanWrite(p)
         THEN /\ db' = DeleteFeedRows(db, fid)
              /\ tx' = DeleteFeedRows(db, fid)
         ELSE UNCHANGED <<db, tx>>
    /\ hist' = [hist EXCEPT !.edits = @ + 1]
    /\ UNCHANGED <<now, lockOwner, pc, loc, running, due>>

(***************************************************************************)
(* The weekly digest: auto_generate_weekly_digest (the scheduled job),     *)
(* generate_weekly_digest (the route), add_to_digest, remove_from_digest.  *)
(***************************************************************************)
\* today - timedelta(days=today.weekday()), as a day number
WeekStart(t) == DayOf(t) - Weekday(DayOf(t))

\* article_id IN (SELECT article_id FROM weekly_digest WHERE week_start = ?)
InDigest(v, id, week) ==
    \E e \in v.digest : e.article_id = id /\ e.week_start = week

\* the WHERE clause of lines 3944-3950, today the day number of the run
Qualifies(v, a, today, week) ==
    /\ SqlDate(a.published) # Null
    /\ SqlDate(a.published) >= DayOrd(today - 7)
    /\ SqlDate(a.published) <= DayOrd(today)
    /\ a.score > DigestThreshold
    /\ ~InDigest(v, a.id, week)

\* the order of the rows without an ORDER BY clause
RowidOrder(a, b) == a.id < b.id

\* ORDER BY relevance_score DESC, published_date DESC (rows that tie come
\* in rowid order)
Before(a, b) ==
    \/ a.score > b.score
    \/ a.score = b.score /\ StampKey(a.published) > StampKey(b.published)
    \/ a.score = b.score /\ StampKey(a.published) = StampKey(b.published)
       /\ a.id < b.id

RECURSIVE Ranked(_)
Ranked(S) ==
    IF S = {} THEN <<>>
    ELSE LET first == CHOOSE a \in S : \A b \in S \ {a} : Before(a, b)
         IN <<first.id>> \o Ranked(S \ {first})

\* the SELECT of lines 3944-3953 without its LIMIT
AllRanked(v, today, week) ==
    Ranked({a \in v.articles : Qualifies(v, a, today, week)})

\* the SELECT of lines 3944-3953: LIMIT 6
TopArticles(v, today, week) ==
    LET ranked == Ranked({a \in v.articles : Qualifies(v, a, today, week)})
    IN SubSeq(ranked, 1, Min(DigestLimit, Len(ranked)))

\* the rows of a week the builder wrote
SystemEntries(v, week) ==
    {e \in v.digest : e.week_start = week /\ e.added_by = "system"}

RECURSIVE InsertDigest(_, _, _, _)
\* INSERT INTO weekly_digest (article_id, notes, week_start, added_by)
InsertDigest(v, ids, week, by) ==
    IF ids = <<>> THEN v
    ELSE InsertDigest(
            [v EXCEPT !.digest = @ \cup
                         {[id |-> v.seqDigest + 1, article_id |-> Head(ids),
                           week_start |-> week, added_by |-> by]},
                      !.seqDigest = @ + 1],
            Tail(ids), week, by)

\* lines 3925-3940 (1171-1183 in the route): the marker check
BuildBegin(p) ==
    /\ CanBuild
    /\ LET today == DayOf(now)
           week == WeekStart(now)
       IN IF DigestMarker(week) \in View(p).settings
          THEN /\ UNCHANGED <<pc, loc>>
               /\ hist' = [hist EXCEPT !.starts = @ + 1, !.noops = @ + 1,
                                       !.skipped =
                                           Len(TopArticles(View(p), today, week))]
          ELSE /\ pc' = [pc EXCEPT ![p] = "b_select"]
               /\ loc' = [loc EXCEPT ![p] =
                            [LocInit EXCEPT !.op = "build", !.day = today,
                                            !.week = week]]
               /\ hist' = [hist EXCEPT !.starts = @ + 1]
    /\ UNCHANGED <<now, db, tx, lockOwner, running, due>>

\* lines 3942-3953 (1185-1196): the top articles of the trailing week
BuildSelect(p) ==
    /\ pc[p] = "b_select"
    /\ LET l == loc[p]
           v == View(p)
       IN loc' = [loc EXCEPT ![p].top = TopArticles(v, l.day, l.week),
                             ![p].q = Cardinality({a \in v.articles :
                                          Qualifies(v, a, l.day, l.week)})]
    /\ pc' = [pc EXCEPT ![p] = "b_write"]
    /\ UNCHANGED <<now, db, tx, lockOwner, running, due, hist>>

\* a builder whose INSERTs of the entries were committed one by one, before
\* the marker is written
BuildWriteAutocommit(p) ==
    /\ pc[p] = "b_write"
    /\ CanWrite(p)
    /\ LET l == loc[p]
           v == InsertDigest(View(p), l.top, l.week, "system")
       IN /\ db' = v
          /\ IF ~SettingKeyUnique(v, DigestMarker(l.week))
             THEN /\ pc' = [pc EXCEPT ![p] = AfterReturn(p)]
                  /\ loc' = [loc EXCEPT ![p] = LocInit]
                  /\ tx' = v
                  /\ lockOwner' = Abandoned
             ELSE /\ tx' = PutSetting(v, DigestMarker(l.week))
                  /\ Wrote(p)
                  /\ pc' = [pc EXCEPT ![p] = "b_commit"]
                  /\ loc' = loc
    /\ UNCHANGED <<now, running, due, hist>>

\* lines 3955-3968 (1198-1211): the entries, then the marker.  Whatever is
\* raised is caught by the handler, which returns with the connection left
\* as it is
BuildWrite(p) ==
    /\ pc[p] = "b_write"
    /\ LET l == loc[p]
           v == InsertDigest(View(p), l.top, l.week, "system")
       IN IF ~CanWrite(p)
          THEN \* database is locked
               /\ pc' = [pc EXCEPT ![p] = AfterReturn(p)]
               /\ loc' = [loc EXCEPT ![p] = LocInit]
               /\ UNCHANGED <<tx, lockOwner>>
          ELSE IF ~SettingKeyUnique(v, DigestMarker(l.week))
          THEN \* IntegrityError on the marker, the entries not committed
               /\ pc' = [pc EXCEPT ![p] = AfterReturn(p)]
               /\ loc' = [loc EXCEPT ![p] = LocInit]
               /\ tx' = db
               /\ lockOwner' = Abandoned
          ELSE /\ tx' = PutSetting(v, DigestMarker(l.week))
               /\ Wrote(p)
               /\ pc' = [pc EXCEPT ![p] = "b_commit"]
               /\ loc' = loc
    /\ UNCHANGED <<now, db, running, due, hist>>

\* lines 3970-3971 (1213-1214): commit and close
BuildCommit(p) ==
    /\ pc[p] = "b_commit"
    /\ db' = tx
    /\ tx' = tx
    /\ Ended(p)
    /\ hist' = [hist EXCEPT !.builds = @ + 1]
    /\ pc' = [pc EXCEPT ![p] = AfterReturn(p)]
    /\ loc' = [loc EXCEPT ![p] = LocInit]
    /\ UNCHANGED <<now, running, due>>

\* POST /api/add_to_digest: added_by is left to its default, 'user'
add_to_digest(p, article_id) ==
    /\ pc[p] = "idle"
    /\ CanEdit
    /\ IF ~InDigest(db, article_id, WeekStart(now)) /\ CanWrite(p)
       THEN /\ db' = InsertDigest(db, <<article_id>>, WeekStart(now), "user")
            /\ tx' = InsertDigest(db, <<article_id>>, WeekStart(now), "user")
       ELSE UNCHANGED <<db, tx>>
    /\ hist' = [hist EXCEPT !.edits = @ + 1]
    /\ UNCHANGED <<now, lockOwner, pc, loc, running, due>>

\* DELETE /api/remove_from_digest/<digest_id>
remove_from_digest(p, digest_id) ==
    /\ pc[p] = "idle"
    /\ CanEdit
    /\ \E e \in db.digest : e.id = digest_id
    /\ IF CanWrite(p)
       THEN /\ db' = [db EXCEPT !.digest = {e \in @ : e.id # digest_id}]
            /\ tx' = [db EXCEPT !.digest = {e \in @ : e.id # digest_id}]
       ELSE UNCHANGED <<db, tx>>
    /\ hist' = [hist EXCEPT !.edits = @ + 1]
    /\ UNCHANGED <<now, lockOwner, pc, loc, running, due>>

(***************************************************************************)
(* The threads' entry points.                                              *)
(***************************************************************************)
\* setup_scheduler, line 3918: the initial fetch, on a thread of its own
StartupFetch ==
    /\ pc[Startup] = "init"
    /\ FetchBegin(Startup)

\* GET /api/fetch_now
fetch_now ==
    /\ pc[Web] = "idle"
    /\ FetchBegin(Web)

\* run_scheduler: run_pending() finds the fetch job due (every 6 hours)
SchedFetch ==
    /\ pc[Sched] = "sleep"
    /\ running
    /\ FetchBegin(Sched)

\* schedule.every().tuesday
Tuesday == 1

\* run_scheduler: run_pending() finds the digest job due
auto_generate_weekly_digest ==
    /\ pc[Sched] = "sleep"
    /\ running
    /\ Weekday(DayOf(now)) = Tuesday
    /\ BuildBegin(Sched)

\* POST /api/generate_weekly_digest
generate_weekly_digest ==
    /\ pc[Web] = "idle"
    /\ BuildBegin(Web)

\* time passes: d ticks
Advance(d) ==
    /\ hist.advances < MaxAdvances
    /\ now' = now + d
    /\ hist' = [hist EXCEPT !.advances = @ + 1]
    /\ UNCHANGED <<db, tx, lockOwner, pc, loc, running, due>>

HistInit ==
    [calls |-> 0, edits |-> 0, cleanups |-> 0, sweeps |-> 0,
     starts |-> 0, builds |-> 0, noops |-> 0, skipped |-> 0, advances |-> 0,
     expired |-> {}, reported |-> {},
     corrPrev |-> [day |-> 0, events |-> {}, articles |-> {}]]

\* the process after __init__ on a fresh installation: the scheduler thread
\* about to poll, the start-up thread about to fetch, the web layer idle
Init ==
    /\ now = StartNow
    /\ db = FreshDb
    /\ tx = FreshDb
    /\ lockOwner = None
    /\ pc = [p \in Threads |->
                IF p = Startup THEN "init" ELSE IF p = Sched THEN "sleep" ELSE "idle"]
    /\ loc = [p \in Threads |-> LocInit]
    /\ running = TRUE
    /\ due = <<>>
    /\ hist = HistInit

\* the steps of a fetch pass and of the analyses it runs
PassStep(p) ==
    \/ FetchRequest(p)
    \/ FetchCheck(p)
    \/ FetchInsert(p)
    \/ FetchFinish(p)
    \/ AnalyzeBegin(p)
    \/ AnalyzeSelect(p)
    \/ AnalyzeInsert(p)
    \/ AnalyzeCommit(p)

\* ingestion: the start-up fetch, the scheduled fetch, fetch_now and the
\* event content search of the web layer
NextIngest ==
    \/ StartupFetch
    \/ SchedFetch
    \/ fetch_now
    \/ \E p \in Threads : PassStep(p)
    \/ \E event \in db.events : FetchEventContent(Web, event)

SpecIngest == Init /\ [][NextIngest]_vars

\* correlation run again and again by one thread: fetch_now and the event
\* content search, one request after the other, as the days pass
NextCorr ==
    \/ fetch_now
    \/ PassStep(Web)
    \/ \E event \in db.events : FetchEventContent(Web, event)
    \/ Advance(DayTicks)

SpecCorr == Init /\ [][NextCorr]_vars

\* retention: the scheduler's sweep beside the start-up fetch and the
\* deletion of feeds by the web layer, over a month
NextSweep ==
    \/ StartupFetch
    \/ cleanup_old_articles
    \/ PassStep(Startup)
    \/ \E fid \in {f.id : f \in db.feeds} : delete_feed(Web, fid)
    \/ \E d \in {DayTicks, (RetentionDays + 1) * DayTicks} : Advance(d)

SpecSweep == Init /\ [][NextSweep]_vars

\* the digest builder: the process restarted on a Tuesday, 2026-01-06, on
\* the store earlier runs left behind
DigestDay == StartDay + 3
DigestNow == DigestDay * DayTicks + 1

StoredUrls == <<"s1", "s2", "s3", "s4", "s5", "s6", "s7", "s8", "s9", "s10">>

\* the i-th article earlier passes stored: scores above the digest
\* threshold, some of them equal, published over the last days, the first
\* of them a report from CES 2026
StoredArticle(i) ==
    [id |-> i, feed_id |-> 1 + (i % 2), url |-> StoredUrls[i],
     title |-> IF i = 1 THEN {"wireless", "ces"} ELSE {"wireless"},
     description |-> {}, techwords |-> {},
     mentions |-> IF i = 1
                  THEN <<[name |-> "ces", text |-> "CES", year |-> 2026]>>
                  ELSE <<>>,
     published |-> TickStamp(DigestNow - i),
     score |-> 400 + BoostStep * (i % 3), image |-> FALSE]

\* three more of them: one scored exactly the digest threshold, one
\* published eight days before the restart, one seven days before it, in
\* the first half of that day
EdgeArticles(k) ==
    {[id |-> k + 1, feed_id |-> 1, url |-> "b1", title |-> {"wireless"},
      description |-> {}, techwords |-> {}, mentions |-> <<>>,
      published |-> TickStamp(DigestNow - 1), score |-> DigestThreshold,
      image |-> FALSE],
     [id |-> k + 2, feed_id |-> 2, url |-> "b2", title |-> {"wireless"},
      description |-> {}, techwords |-> {}, mentions |-> <<>>,
      published |-> TickStamp((DigestDay - 8) * DayTicks + 1), score |-> 900,
      image |-> FALSE],
     [id |-> k + 3, feed_id |-> 2, url |-> "b3", title |-> {"wireless"},
      description |-> {}, techwords |-> {}, mentions |-> <<>>,
      published |-> TickStamp((DigestDay - 7) * DayTicks), score |-> 350,
      image |-> FALSE]}

\* the store with k such articles, the second feed switched off
StoredDb(k) ==
    [FreshDb EXCEPT
        !.articles = IF k = 0 THEN {}
                     ELSE {StoredArticle(i) : i \in 1..k} \cup EdgeArticles(k),
        !.seqArticle = IF k = 0 THEN 0 ELSE k + 3,
        !.settings = IF k = 0 THEN {} ELSE {LastFetchKey},
        !.feeds = {[f EXCEPT !.last_fetched = IF k = 0 THEN NoTime ELSE StartNow,
                             !.active = (f.id = 1)] : f \in @}]

InitDigest ==
    /\ now = DigestNow
    /\ \E k \in {0, MaxStored} : db = StoredDb(k)
    /\ tx = db
    /\ lockOwner = None
    /\ pc = [p \in Threads |->
                IF p = Startup THEN "init" ELSE IF p = Sched THEN "sleep" ELSE "idle"]
    /\ loc = [p \in Threads |-> LocInit]
    /\ running = TRUE
    /\ due = <<>>
    /\ hist = HistInit

\* the steps of a digest build
BuildStep(p) ==
    \/ BuildSelect(p)
    \/ BuildWrite(p)
    \/ BuildCommit(p)

\* the digest: the scheduled job and the routes of the web layer, beside
\* the start-up fetch
NextDigest ==
    \/ auto_generate_weekly_digest
    \/ generate_weekly_digest
    \/ \E p \in {Sched, Web} : BuildStep(p)
    \/ \E id \in 1..MaxRowId : add_to_digest(Web, id)
    \/ \E id \in 1..MaxRowId : remove_from_digest(Web, id)
    \/ StartupFetch
    \/ PassStep(Startup)
    \/ CollectGarbage
    \/ Advance(7 * DayTicks)

SpecDigest == InitDigest /\ [][NextDigest]_vars

(***************************************************************************)
(* The scorer over arbitrary texts: a fetch pass of the web layer that has *)
(* just received, from the first feed, a document whose first item is any  *)
(* text over ScoreTerms.                                                   *)
(***************************************************************************)
\* three important keywords, one plain keyword, one word off the vocabulary
ScoreTerms == {"wifi", "5g", "6g", "router", "tech"}

\* len(text.split()) of the texts tried
ScoreWords == (0..MaxWords) \cup {k * LongText : k \in 1..MaxWords}

\* the items tried: a text that holds a term has at least one word
ScoreEntries ==
    {[url |-> "u9", title |-> x[1], description |-> {}, content |-> {},
      words |-> x[2], techwords |-> x[1] \cap {"5g", "6g", "tech"},
      mentions |-> <<>>, published |-> StartNow - 1] :
        x \in {y \in (SUBSET ScoreTerms) \X ScoreWords : y[1] = {} \/ y[2] >= 1}}

\* fetch_now under way: the first feed answered with ScoreDoc(e)
ScoreDoc(e) == <<e, EntryCes, EntryCesFloor>>

InitScore ==
    /\ now = StartNow
    /\ db = FreshDb
    /\ tx = FreshDb
    /\ lockOwner = None
    /\ pc = [p \in Threads |->
                IF p = Startup THEN "init" ELSE IF p = Sched THEN "sleep" ELSE "f_check"]
    /\ \E e \in ScoreEntries :
         loc = [p \in Threads |->
                  IF p = Web
                  THEN [LocInit EXCEPT !.op = "fetch",
                                       !.feeds = ActiveFeeds(FreshDb),
                                       !.fi = 1,
                                       !.entries = Limit(ScoreDoc(e)),
                                       !.ei = 1,
                                       !.visited = {1},
                                       !.known = FALSE]
                  ELSE LocInit]
    /\ running = TRUE
    /\ due = <<>>
    /\ hist = [HistInit EXCEPT !.calls = 1]

\* the rest of the pass, then the event content search
NextScore ==
    \/ PassStep(Web)
    \/ \E event \in db.events : FetchEventContent(Web, event)

SpecScore == InitScore /\ [][NextScore]_vars

(***************************************************************************)
(* Correlation around the days of an event: the web layer fetches before   *)
(* the show and again while it is on.                                      *)
(***************************************************************************)
NextWindow ==
    \/ fetch_now
    \/ PassStep(Web)
    \/ \E d \in {DayTicks, 4 * DayTicks} : Advance(d)

SpecWindow == Init /\ [][NextWindow]_vars

(***************************************************************************)
(* Feeds that fail: the web layer fetches and verifies feeds that answer,  *)
(* fail or serve a document that does not parse.                           *)
(***************************************************************************)
NextVerify ==
    \/ fetch_now
    \/ PassStep(Web)
    \/ \E fid \in {f.id : f \in db.feeds} : verify_feed(Web, fid)

SpecVerify == Init /\ [][NextVerify]_vars

(***************************************************************************)
(* Fetching after a sweep: the web layer fetches, a month passes, the      *)
(* scheduler sweeps, the web layer fetches again.                          *)
(***************************************************************************)
NextExpire ==
    \/ fetch_now
    \/ PassStep(Web)
    \/ cleanup_old_articles
    \/ Advance((RetentionDays + 1) * DayTicks)

SpecExpire == Init /\ [][NextExpire]_vars

(***************************************************************************)
(* Linking from several sides: the scheduler's fetch passes with their     *)
(* analysis, and beside them one request of the web layer, the manual      *)
(* correlation or the event content search, before and during the show.    *)
(***************************************************************************)
NextLinks ==
    \/ SchedFetch
    \/ PassStep(Sched)
    \/ analyze_event_articles(Web)
    \/ ManualStep(Web)
    \/ \E event \in db.events : FetchEventContent(Web, event)
    \/ Advance(4 * DayTicks)

SpecLinks == Init /\ [][NextLinks]_vars

\* the web layer fetching at the start of the year and in its last week
NextYearEnd ==
    \/ fetch_now
    \/ PassStep(Web)
    \/ Advance(YearEndDays * DayTicks)
SpecYearEnd == Init /\ [][NextYearEnd]_vars

(***************************************************************************)
(* run_scheduler, job by job.  schedule.run_pending() collects the jobs    *)
(* that are due and runs them one after the other; self.running is read    *)
(* only by the while of run_scheduler, between two calls of run_pending(). *)
(***************************************************************************)
JobFetch == "fetch"
JobCleanup == "cleanup"

\* what run_pending() can find due in one call: the 6-hourly fetch, the
\* daily cleanup, or both in either order (sorted by next_run)
DueLists ==
    {<<JobFetch>>, <<JobCleanup>>, <<JobFetch, JobCleanup>>, <<JobCleanup, JobFetch>>}

\* signal_handler: SIGINT or SIGTERM arrives
signal_handler ==
    /\ running
    /\ running' = FALSE
    /\ UNCHANGED <<now, db, tx, lockOwner, pc, loc, due, hist>>

\* while self.running: schedule.run_pending() with jobs due
run_pending ==
    /\ pc[Sched] = "sleep"
    /\ due = <<>>
    /\ running
    /\ \E jobs \in DueLists : due' = jobs
    /\ pc' = [pc EXCEPT ![Sched] = "pending"]
    /\ UNCHANGED <<now, db, tx, lockOwner, loc, running, hist>>

\* run_pending() calls the next due job: fetch_rss_feeds
RunFetchJob ==
    /\ pc[Sched] = "pending"
    /\ due # <<>>
    /\ Head(due) = JobFetch
    /\ FetchBegin(Sched)

\* run_pending() calls the next due job: cleanup_old_articles
RunCleanupJob ==
    /\ pc[Sched] = "pending"
    /\ due # <<>>
    /\ Head(due) = JobCleanup
    /\ CleanupJob

\* the job returned to run_pending(), which goes on with the rest
JobReturned ==
    /\ pc[Sched] = "sleep"
    /\ due # <<>>
    /\ due' = Tail(due)
    /\ pc' = [pc EXCEPT ![Sched] = "pending"]
    /\ UNCHANGED <<now, db, tx, lockOwner, loc, running, hist>>

\* run_pending() returned; time.sleep(60)
SchedSleep ==
    /\ pc[Sched] = "pending"
    /\ due = <<>>
    /\ pc' = [pc EXCEPT ![Sched] = "sleep"]
    /\ UNCHANGED <<now, db, tx, lockOwner, loc, running, due, hist>>

\* while self.running: the loop ends
SchedExit ==
    /\ pc[Sched] = "sleep"
    /\ due = <<>>
    /\ ~running
    /\ pc' = [pc EXCEPT ![Sched] = "stopped"]
    /\ UNCHANGED <<now, db, tx, lockOwner, loc, running, due, hist>>

\* the scheduler thread and the start-up fetch, with a signal at any moment
NextShutdown ==
    \/ StartupFetch
    \/ PassStep(Startup)
    \/ run_pending
    \/ RunFetchJob
    \/ RunCleanupJob
    \/ JobReturned
    \/ SchedSleep
    \/ SchedExit
    \/ PassStep(Sched)
    \/ signal_handler
SpecShutdown == Init /\ [][NextShutdown]_vars

\* the web layer fetching and asking for a detection
NextDetect ==
    \/ fetch_now
    \/ PassStep(Web)
    \/ detect_events(Web)
SpecDetect == Init /\ [][NextDetect]_vars

(***************************************************************************)
(* estimate_event_dates over the known-events table and the default, in    *)
(* every month: the store holds one recent article that names an event     *)
(* twice, and the web layer asks for a detection.                          *)
(***************************************************************************)
\* the names the patterns of lines 1937 and 1943 yield that the table
\* knows, and one it does not know
DateNames ==
    {"ces", "mwc", "rsa", "computex", "apple wwdc", "black hat", "ifa",
     "oracle openworld", "smart expo"}
DateYears == {2026, 2027}

\* the second tick of the third day of month m of 2026
MonthStart(m) == (StartDay + CumDays[m]) * DayTicks + 1

\* "<name> <year>: tech at <name> <year>", fetched at t
NamingArticle(name, year, t) ==
    ArticleRow(1,
        [url |-> "u20", title |-> {"tech"}, description |-> {}, content |-> {},
         words |-> 8, techwords |-> {"tech"},
         mentions |-> <<[name |-> name, text |-> name, year |-> year],
                        [name |-> name, text |-> name, year |-> year]>>,
         published |-> NoTime],
        IngestThreshold, t)

InitDates ==
    /\ \E m \in 1..12 : now = MonthStart(m)
    /\ \E name \in DateNames : \E year \in DateYears :
          db = InsertArticle(FreshDb, NamingArticle(name, year, now))
    /\ tx = db
    /\ lockOwner = None
    /\ pc = [p \in Threads |->
                IF p = Startup THEN "done" ELSE IF p = Sched THEN "sleep" ELSE "idle"]
    /\ loc = [p \in Threads |-> LocInit]
    /\ running = TRUE
    /\ due = <<>>
    /\ hist = HistInit

NextDates == detect_events(Web)
SpecDates == InitDates /\ [][NextDates]_vars

(***************************************************************************)
(* Properties of ingestion (SpecIngest).                                   *)
(***************************************************************************)
\* no two rows of the articles table of v have the same url
OnePerUrl(v) == \A a, b \in v.articles : a.url = b.url => a.id = b.id

\* the positions of a thread inside fetch_rss_feeds, analyses included
InPass == {"f_feed", "f_check", "f_insert", "f_finish",
           "a_detect", "a_select", "a_insert", "a_commit"}

\* C1.  Idempotent ingestion: whatever fetch passes ran and however they
\* interleaved, the store (committed or inside the open transaction) holds
\* at most one article per URL; and a pass that found every entry of every
\* document it got stored already ends with total_new_articles = 0.
C1_IdempotentIngestion ==
    /\ OnePerUrl(db)
    /\ OnePerUrl(tx)
    /\ \A p \in Threads :
         pc[p] = "f_finish" /\ loc[p].known => loc[p].total = 0

\* C1 happens: a pass re-fetched a document whose entries were all stored
\* and is about to report zero new articles
C1_Witness ==
    \E p \in Threads :
        /\ pc[p] = "f_finish"
        /\ loc[p].known
        /\ Len(loc[p].entries) > 0
        /\ \A i \in 1..Len(loc[p].entries) :
              ExistingArticle(db, loc[p].entries[i].url)
        /\ loc[p].total = 0

\* C2.  Ingestion threshold invariant: no stored article has a relevance
\* score at or below 0.05.
C2_ThresholdInvariant ==
    \A a \in db.articles : a.score > IngestThreshold

\* C3.  Mutual exclusion of ingestion: at most one thread is inside the
\* ingestion pipeline at any time.
C3_MutualExclusion ==
    Cardinality({p \in Threads : pc[p] \in InPass}) <= 1

\* C10.  Per-feed failure isolation: a pass updates last_fetched only of
\* feeds whose fetch and parse succeeded; a feed that failed in the pass is
\* not among those it updated.
C10_FailureIsolation ==
    \A p \in Threads : loc[p].touched \cap loc[p].failed = {}

(***************************************************************************)
(* Event correlation, run sequentially (SpecCorr).                         *)
(***************************************************************************)
\* C4: a correlator run that follows, sequentially, a completed run over the
\* same events and articles on the same day creates no link, no (event,
\* article) pair is ever linked twice, and within one pass an article that
\* several keywords of an event match is linked once.
C4_CorrelatorIdempotence ==
    /\ \A v \in {db, tx} : \A l1, l2 \in v.links :
            l1.event_id = l2.event_id /\ l1.article_id = l2.article_id
                => l1.id = l2.id
    /\ \A p \in Threads :
            pc[p] = "a_commit" /\ loc[p].same => View(p).links = loc[p].links0

\* a second run over unchanged events and articles reached its commit, and
\* one of the links it found in place joins an event to an article that two
\* keywords of the event match
C4_Witness ==
    \E p \in Threads :
        /\ pc[p] = "a_commit"
        /\ loc[p].same
        /\ \E l \in loc[p].links0 :
              \E ev \in db.events, a \in db.articles :
                 /\ ev.id = l.event_id
                 /\ a.id = l.article_id
                 /\ Cardinality({i \in DOMAIN ev.keywords :
                        ev.keywords[i] \in a.title \cup a.description}) >= 2

(***************************************************************************)
(* Retention and the scheduler thread (SpecSweep).                         *)
(***************************************************************************)
\* C7: a failure raised inside a scheduled handler never terminates the
\* scheduler loop.
C7_SchedulerSurvives == pc[Sched] # "crashed"

\* C8: every event-article link refers to an article that exists.
C8_LinkIntegrity ==
    \A l \in db.links : \E a \in db.articles : a.id = l.article_id

C5_DigestIdempotence ==
    [][/\ \A e \in db'.digest :
             /\ e.added_by = "system"
             /\ DigestMarker(e.week_start) \in db.settings
             => e \in db.digest
       /\ hist'.noops # hist.noops => db' = db /\ tx' = tx]_vars

\* the builder was invoked again in a week it had completed, at a moment
\* when articles qualified for that week although fewer articles than the
\* digest takes were stored: they had arrived, or their entries had been
\* removed, since the build
C5_Witness ==
    /\ hist.noops > 0
    /\ hist.skipped > 0
    /\ hist.builds > 0
    /\ Cardinality(db.articles) < DigestLimit

C11_MalformedEntryIsolation ==
    /\ \A a \in db.articles : a.title # NoTitle
    /\ \A p \in Threads : \A u \in loc[p].unseen : u.by # "link"

\* C12: an insert refused because the URL is already stored does not stop
\* the remaining entries of the feed from being processed.
C12_DuplicateInsertIsNoOp ==
    \A p \in Threads : \A u \in loc[p].unseen : u.by # "duplicate"

\* the entry a fetch pass is looking at, if any
CurrentEntries ==
    {loc[p].entries[loc[p].ei] :
        p \in {q \in Threads : /\ pc[q] \in {"f_check", "f_insert"}
                               /\ loc[q].ei \in 1..Len(loc[q].entries)}}

BuildCommits(p) == pc[p] = "b_commit" /\ pc'[p] # "b_commit"

\* a commit of the builder keeps every entry added by hand as it is
ManualEntriesKept ==
    [][\A p \in Threads :
          BuildCommits(p) =>
             \A e \in db.digest : e.added_by = "user" => e \in db'.digest]_vars

\* C15: a digest build keeps every entry added by hand as it is, and every
\* entry it adds is a system entry for an article that had no entry in that
\* week's digest.
C15_BuilderLeavesManualAlone ==
    [][\A p \in Threads :
          BuildCommits(p) =>
             /\ \A e \in db.digest : e.added_by = "user" => e \in db'.digest
             /\ \A e \in db'.digest \ db.digest :
                  /\ e.added_by = "system"
                  /\ ~InDigest(db, e.article_id, e.week_start)]_vars

\* C16: the digest never holds two entries for one article in one week.
C16_DigestEntryUnique ==
    \A e1, e2 \in db.digest :
        e1.article_id = e2.article_id /\ e1.week_start = e2.week_start
            => e1.id = e2.id

\* the step of thread p ends a run of analyze_articles_for_events: after
\* its commit, or where it found no event near today
CorrelatorReturns(p) ==
    \/ pc[p] = "a_commit" /\ pc'[p] # "a_commit"
    \/ pc[p] = "a_detect" /\ pc'[p] # "a_select" /\ loc'[p] # loc[p]

\* the days of the event meet [today - 5 days, today + 14 days]
WindowIntersects(ev, t) ==
    /\ SqlDate(ev.start) # Null
    /\ SqlDate(ev.end) # Null
    /\ SqlDate(ev.start) <= DayOrd(DayOf(t) + 14)
    /\ SqlDate(ev.end) >= DayOrd(DayOf(t) - 5)

\* article a is of the last five days, holds a keyword of the event in its
\* title or description and has an event relevance above 0.15
Correlates(ev, a, t) ==
    /\ \E i \in DOMAIN ev.keywords : ev.keywords[i] \in a.title \cup a.description
    /\ SqlDate(a.published) # Null
    /\ SqlDate(a.published) >= DayOrd(DayOf(t) - 5)
    /\ RelevantEnough(ev.keywords, a)

Linked(v, ev, a) ==
    \E l \in v.links : l.event_id = ev.id /\ l.article_id = a.id

\* C17: when a correlator run returns, every active event whose days meet
\* [today - 5 days, today + 14 days], an event in progress included, is
\* linked to every article of the last five days that holds one of its
\* keywords with an event relevance above 0.15.
C17_CorrelationComplete ==
    [][\A p \in Threads :
          CorrelatorReturns(p) =>
             \A ev \in db'.events :
                ev.active /\ WindowIntersects(ev, now) =>
                   \A a \in db'.articles :
                      Correlates(ev, a, now) => Linked(db', ev, a)]_vars

\* C18: no step of a fetch pass or of a feed verification, whether the feed
\* answers or fails, removes a feed or an article; a feed that fails stays
\* stored.
C18_FeedsNeverAutoDestroyed ==
    [][/\ \A f \in db.feeds : \E g \in db'.feeds : g.id = f.id
       /\ \A a \in db.articles : \E b \in db'.articles : b.id = a.id]_vars

\* C19: no stored article has the url of an article that a retention sweep
\* removed earlier.
C19_ExpiredIsTerminal ==
    \A a \in db.articles : a.url \notin hist.expired

\* the articles whose ids a selection holds
Selected(v, top) == {a \in v.articles : \E i \in 1..Len(top) : top[i] = a.id}

\* the qualifying articles a selection leaves out
LeftOut(v, top, today, week) ==
    {a \in v.articles : Qualifies(v, a, today, week)} \ Selected(v, top)

\* C20: the articles a digest build selects qualify, come in the order of
\* descending score and, within a score, of descending publish time, and no
\* qualifying article that is left out has a higher score than a selected
\* one, or the same score and a later publish time.
C20_DigestSelectionOrder ==
    [][\A p \in Threads :
          pc[p] = "b_select" /\ pc'[p] = "b_write" =>
             LET top == loc'[p].top
                 day == loc[p].day
                 week == loc[p].week
                 row(i) == ArticleById(db, top[i])
             IN /\ \A s \in Selected(db, top) : Qualifies(db, s, day, week)
                /\ \A i, j \in 1..Len(top) :
                      i < j =>
                         /\ row(i).score >= row(j).score
                         /\ row(i).score = row(j).score =>
                               StampKey(row(i).published) >= StampKey(row(j).published)
                /\ \A s \in Selected(db, top) :
                      \A a \in LeftOut(db, top, day, week) :
                         /\ a.score <= s.score
                         /\ a.score = s.score =>
                               StampKey(a.published) <= StampKey(s.published)]_vars

\* a build selected six articles and left out two that qualify, one of them
\* with the score of a selected article and an earlier publish time
C20_Witness ==
    \E p \in Threads :
        /\ pc[p] = "b_write"
        /\ Len(loc[p].top) = DigestLimit
        /\ Cardinality(LeftOut(db, loc[p].top, loc[p].day, loc[p].week)) >= 2
        /\ \E a \in LeftOut(db, loc[p].top, loc[p].day, loc[p].week) :
              \E s \in Selected(db, loc[p].top) :
                 /\ a.score = s.score
                 /\ StampKey(a.published) < StampKey(s.published)

(***************************************************************************)
(* Links from every side (SpecLinks).                                      *)
(***************************************************************************)
\* C21: the store never holds two links for one (event, article) pair.
C21_LinkPairUnique ==
    \A l1, l2 \in db.links :
        l1.event_id = l2.event_id /\ l1.article_id = l2.article_id
            => l1.id = l2.id

\* C22: every stored link has a score above 0.15 and at most 1.0, and the
\* score is min((titleMatches*0.4 + descriptionMatches*0.3) / keywords, 1.0)
\* of its event and its article.
C22_LinkThreshold ==
    \A l \in db.links :
        /\ l.score > 150
        /\ l.score <= ScoreMax
        /\ \A ev \in db.events : \A a \in db.articles :
              ev.id = l.event_id /\ a.id = l.article_id
                 => l.score = EventRelevance(ev.keywords, a)


(***************************************************************************)
(* Event detection.                                                        *)
(***************************************************************************)
\* the stored articles in which the event key of ev is matched
Supporters(v, ev) ==
    {a \in v.articles :
        \E i \in 1..Len(a.mentions) :
            a.mentions[i].name = ev.name /\ a.mentions[i].year = ev.year}

\* C23: an event enters the store only if its key is matched in at least two
\* distinct stored articles and its year is the current year or later.
C23_EventCandidateSupport ==
    [][\A ev \in db'.events \ db.events :
          /\ Cardinality(Supporters(db', ev)) >= 2
          /\ ev.year >= DayYMD(DayOf(now)).y]_vars

\* C24: no two stored events have the same normalized name and the same
\* year, however often the detector ran over the same articles.
C24_DetectionIdempotent ==
    \A e1, e2 \in db.events :
        e1.name = e2.name /\ e1.year = e2.year => e1.id = e2.id

\* the scheduler thread calls a job in this step
SchedDispatches ==
    \/ pc[Sched] = "pending" /\ pc'[Sched] \in {"f_feed", "f_finish"}
    \/ hist'.cleanups > hist.cleanups

\* C25: once the cancellation signal has cleared self.running, the scheduler
\* thread calls no further job, not even one that was due in the same call
\* of run_pending().
C25_NoDispatchAfterSignal == [][~running => ~SchedDispatches]_vars

\* the positions of a thread inside analyze_articles_for_events
AnalysisPcs == {"a_detect", "a_select", "a_insert", "a_commit"}

\* the events the store holds in window at t, as the set of their ids
NearEvents(v, t) == {ev.id : ev \in ActiveEvents(v, t)}

ResolveImageCalled(p) == loc'[p].total = loc[p].total + 1

\* C27: when the image resolver is called for an article, the article's row
\* is committed and the calling pass holds no open write transaction, so
\* that the write-back on the resolver's own connection can reach the row.
C27_ImageAfterPersistence ==
    [][\A p \in Threads :
          ResolveImageCalled(p)
             => /\ \E a \in db'.articles : a.id = tx'.seqArticle
                /\ lockOwner' # p]_vars

\* thread p ends an analysis run in this step
RunEnded(p) == pc[p] \in AnalysisPcs /\ loc'[p].runs < loc[p].runs

\* the events on the connection of the analysis run of p when this step
\* ends it: those the detector inserts in the step included
EventsOfRun(p) ==
    IF pc[p] = "a_detect" /\ CanWrite(p)
    THEN DetectNewEvents(View(p), now).events
    ELSE View(p).events

\* C28: when an analysis run ends, every event its detector inserted is
\* committed; and every event a manual detection request reports as
\* detected is in the store when the request has answered.
C28_DetectedEventsDurable ==
    [][/\ \A p \in Threads : RunEnded(p) => EventsOfRun(p) \subseteq db'.events
       /\ hist'.reported # hist.reported => hist'.reported \subseteq db'.events]_vars

\* every committed system entry belongs to a week whose marker is committed
DigestMarked ==
    \A e \in db.digest :
        e.added_by = "system" => DigestMarker(e.week_start) \in db.settings

\* thread p leaves the builder in this step without having committed
BuildFails(p) == pc[p] = "b_write" /\ pc'[p] = AfterReturn(p)

\* C29: no step takes the store from a state where every system digest entry
\* has its week's marker (as in the empty digest the process starts with) to
\* one where an entry lacks it; the marker and the entries of a run are
\* committed in one step; a builder run that fails changes nothing in the
\* store.
C29_DigestAtomic ==
    [][/\ DigestMarked => DigestMarked'
       /\ \A p \in Threads :
             /\ BuildFails(p) => db' = db /\ lockOwner' # p
             /\ BuildCommits(p)
                  => /\ DigestMarker(loc[p].week) \in db'.settings \ db.settings
                     /\ \A e \in db'.digest \ db.digest :
                           e.added_by = "system" /\ e.week_start = loc[p].week]_vars

\* a week with committed system entries and its marker, built by one of two
\* runs that found no marker; the other run failed
C29_Witness ==
    /\ \E e \in db.digest :
          e.added_by = "system" /\ DigestMarker(e.week_start) \in db.settings
    /\ hist.starts = 2 /\ hist.builds = 1 /\ hist.noops = 0
    /\ pc[Sched] = "sleep" /\ pc[Web] = "idle"

\* days of month m (the years of the model have 365 days)
MonthDays(m) == CumDays[m + 1] - CumDays[m]

\* a stamp that is a real calendar date
ValidDate(s) ==
    /\ s.m \in 1..12
    /\ s.d \in 1..MonthDays(s.m)

\* C30: the start and the end the detector estimates for an event are real
\* calendar dates, the start not after the end, for every known name and for
\* the default, in every month.
C30_EstimatedDatesValid ==
    \A ev \in hist.reported :
        /\ ValidDate(ev.start)
        /\ ValidDate(ev.end)
        /\ StampKey(ev.start) <= StampKey(ev.end)
====
